---- MODULE Spec2Model ----
(***************************************************************************)
(* Resumable CSV export: the job-creation route (POST /api/export), the    *)
(* status route, the stream route (GET /api/export/:jobId/stream), the two *)
(* tables they use (Product, ExportJob), the export logic of the page and  *)
(* the CSV encoder.                                                        *)
(*                                                                         *)
(* Specifications: Spec (one job, stream invocations one after another),   *)
(* SpecOverlap (invocations that overlap), SpecApi (the three routes),     *)
(* SpecUi (the page, the streams as its environment), SpecResume (the page *)
(* from its failed state), SpecCsv (rows encoded behind the header),       *)
(* SpecMalformed (the encoder on rows with missing fields), SpecQuiet      *)
(* (invocations with no error, every awaited call settling in the end).    *)
(*                                                                         *)
(* Text values (category, status, name, search) are sequences of           *)
(* one-character strings, <<>> being the empty string.                     *)
(*                                                                         *)
(* The Product table is kept run-length encoded: a sequence of segments,   *)
(* each standing for n consecutive rows (consecutive AUTOINCREMENT ids)    *)
(* with the same name, category and status.  Segment k holds the ids       *)
(* Base(k)+1 .. Base(k)+n.  A query result (an ascending array of rows) is *)
(* kept as its length and its first and last id.                           *)
(***************************************************************************)
EXTENDS Integers, Sequences, FiniteSets, TLC

\* ------------------------------------------------------------- constants
CHUNK_SIZE == 1000

\* ---------------------------------------------------------------- bounds
MaxRuns == 2      \* stream invocations
MaxFaults == 2    \* database calls that reject
MaxInserts == 1   \* rows inserted after construction
MaxJobs == 2      \* jobs created through POST /api/export
MaxParts == 3     \* messages one EventSource receives (the header and chunks)

Runs == 1..MaxRuns

\* the job ids a request may name: the job created (1) and an unknown id (0)
JobIds == 0..1

VARIABLES
    products,   \* Product table (segments)
    jobs,       \* ExportJob table: sequence of records, the id is the index
    runs,       \* one record per stream invocation
    faults,     \* database calls that have rejected so far
    inserts,    \* rows inserted so far
    response,   \* the last response of the JSON routes (create, status)
    ui,         \* the export page: its state, its event sources, its download
    csv         \* the CSV text under construction, when rows are encoded on their own

vars == <<products, jobs, runs, faults, inserts, response, ui, csv>>

\* what the stream handler never touches
others == <<response, ui, csv>>

\* ------------------------------------------------------------ text values
CatA == <<"A">>
CatB == <<"B">>
CatNone == <<"Z">>
StActive == <<"a">>
StInactive == <<"i">>

Seg(n, name, category, status) ==
    [n |-> n, name |-> name, category |-> category, status |-> status]

SegA(n) == Seg(n, <<"U", "W">>, CatA, StActive)
SegB(n) == Seg(n, <<"M", "G">>, CatB, StInactive)

\* the tables the model starts from
Datasets ==
    { <<SegA(CHUNK_SIZE)>>,
      <<SegA(2500)>>,
      <<SegA(600), SegB(300), SegA(900)>> }

\* the request bodies the page posts: { category, status, search }
Bodies ==
    { [category |-> <<>>, status |-> <<>>, search |-> <<>>],
      [category |-> CatA, status |-> StActive, search |-> <<"W">>],
      [category |-> CatNone, status |-> <<>>, search |-> <<>>] }

\* ------------------------------------------------------- filters -> where
\* JSON.stringify(filters): the stored text, here the three values in key order
StringifyFilters(f) == <<f.category, f.status, f.search>>

\* JSON.parse(job.filters)
ParseFilters(s) == [category |-> s[1], status |-> s[2], search |-> s[3]]

\* the where object: one condition per non-empty filter
BuildWhere(f) ==
    (IF f.category # <<>> THEN {<<"category", f.category>>} ELSE {})
    \cup (IF f.status # <<>> THEN {<<"status", f.status>>} ELSE {})
    \cup (IF f.search # <<>> THEN {<<"name.contains", f.search>>} ELSE {})

\* name contains search
Contains(s, sub) ==
    \E i \in 0..(Len(s) - Len(sub)) : SubSeq(s, i + 1, i + Len(sub)) = sub

\* a row (a segment's rows) satisfies every condition of where
Matches(row, where) ==
    \A c \in where :
        CASE c[1] = "category" -> row.category = c[2]
          [] c[1] = "status" -> row.status = c[2]
          [] c[1] = "name.contains" -> Contains(row.name, c[2])

\* --------------------------------------------------------- Product table
Max(a, b) == IF a > b THEN a ELSE b
Min(a, b) == IF a < b THEN a ELSE b

RECURSIVE Base(_, _)
Base(prods, k) == IF k <= 1 THEN 0 ELSE Base(prods, k - 1) + prods[k - 1].n

\* prisma.product.count({ where })
RECURSIVE CountFrom(_, _, _)
CountFrom(prods, where, k) ==
    IF k > Len(prods) THEN 0
    ELSE (IF Matches(prods[k], where) THEN prods[k].n ELSE 0)
         + CountFrom(prods, where, k + 1)

Count(prods, where) == CountFrom(prods, where, 1)

EmptyResult == [length |-> 0, first |-> 0, last |-> 0]

\* the lower bound of the scan: id: { gt: cursor }
\* variant of IdLowerBound: gte instead of gt
IdLowerBoundInclusive(cursor) == cursor - 1
IdLowerBound(cursor) == cursor

\* prisma.product.findMany({ where: {...where, id: {gt}}, orderBy: {id: "asc"}, take })
RECURSIVE Scan(_, _, _, _, _, _)
Scan(prods, where, gt, take, k, acc) ==
    IF k > Len(prods) \/ acc.length >= take THEN acc
    ELSE LET base == Base(prods, k)
             lo == Max(base, gt)                \* ids lo+1 .. base+n qualify
             avail == Max(0, base + prods[k].n - lo)
             n == IF Matches(prods[k], where)
                  THEN Min(avail, take - acc.length) ELSE 0
             acc2 == IF n = 0 THEN acc
                     ELSE [length |-> acc.length + n,
                           first |-> IF acc.length = 0 THEN lo + 1 ELSE acc.first,
                           last |-> lo + n]
         IN Scan(prods, where, gt, take, k + 1, acc2)

\* variant of FindMany: the job's filters are left out of the query
FindManyIgnoresWhere(prods, where, gt, take) ==
    Scan(prods, {}, gt, take, 1, EmptyResult)

FindMany(prods, where, gt, take) ==
    Scan(prods, where, gt, take, 1, EmptyResult)

\* INSERT of one row: the next AUTOINCREMENT id, at the end of the table
InsertRow(prods, row) ==
    IF Len(prods) > 0
       /\ [prods[Len(prods)] EXCEPT !.n = 1] = row
    THEN [prods EXCEPT ![Len(prods)].n = @ + 1]
    ELSE Append(prods, row)

\* ------------------------------------------------------- ExportJob table
NewJob(filters, totalRows) ==
    [filters |-> StringifyFilters(filters), status |-> "PENDING",
     totalRows |-> totalRows, lastCursor |-> 0, rowsExported |-> 0]

NoJob ==
    [filters |-> <<<<>>, <<>>, <<>>>>, status |-> "NONE",
     totalRows |-> 0, lastCursor |-> 0, rowsExported |-> 0]

JobExists(id) == id \in DOMAIN jobs

\* prisma.exportJob.findUnique({ where: { id } })
FindUnique(id) == IF JobExists(id) THEN jobs[id] ELSE NoJob

\* ------------------------------------------------------------- run state
\* one entry of a run's history: a database call, a sink emission or a close
Ev(op, kind, ok, x, y, z) ==
    [op |-> op, kind |-> kind, ok |-> ok, x |-> x, y |-> y, z |-> z]

IdleRun ==
    [pc |-> "idle", jobId |-> 0, job |-> NoJob, where |-> {},
     cursor |-> 0, rowsExported |-> 0, stream |-> "readable", log |-> <<>>]

Active(r) == runs[r].pc \notin {"idle", "closed", "crashed", "over"}


\* ------------------------------------------------------------------ sink
\* controller.enqueue throws unless the stream is readable (it throws after
\* controller.close() and after the consumer cancelled the stream)
CanEnqueue(run) == run.stream = "readable"

Logged(run, e) == [run EXCEPT !.log = Append(@, e)]

\* send(data) / sendEvent(event, data), when the enqueue succeeds
Emit(run, kind, x, y, z) == Logged(run, Ev("emit", kind, TRUE, x, y, z))

\* an exception reaches the catch block, which first awaits the FAILED update
Throw(run, what) ==
    [Logged(run, Ev("throw", what, FALSE, 0, 0, 0)) EXCEPT !.pc = "updateFailed"]

\* controller.close(): closes a readable stream, throws on any other
Close(run) ==
    IF run.stream = "readable"
    THEN [Logged(run, Ev("close", "close", TRUE, 0, 0, 0)) EXCEPT !.stream = "closed"]
    ELSE Logged(run, Ev("close", "close", FALSE, 0, 0, 0))

\* finally { controller.close() }: the handler is over
Finally(run) == [Close(run) EXCEPT !.pc = "closed"]

\* ----------------------------------------------------- the stream handler
\* let cursor = job.lastCursor; let rowsExported = job.rowsExported
\* variants of StartCursor and StartRows: a resume that starts over
StartCursorZero(job) == 0
StartCursor(job) == job.lastCursor
StartRowsZero(job) == 0
StartRows(job) == job.rowsExported

\* if (products.length === 0) break
\* variant of LoopEnds: the loop also ends on a chunk that is not full
LoopEndsOnShort(result) == result.length < CHUNK_SIZE
LoopEnds(result) == result.length = 0

\* cursor = products[products.length - 1].id; rowsExported += products.length
\* variant of NextCursor: one past the last row of the chunk
NextCursorPlusOne(result) == result.last + 1
\* variant of NextCursor: the id of the first row of the chunk
NextCursorFirst(result) == result.first
NextCursor(result) == result.last
\* variant of NextRows: every chunk is counted as a full one
NextRowsFullChunk(rowsExported, result) == rowsExported + CHUNK_SIZE
NextRows(rowsExported, result) == rowsExported + result.length

\* data of the update after a chunk
ProgressData(job, cursor, rowsExported) ==
    [job EXCEPT !.lastCursor = cursor, !.rowsExported = rowsExported,
                !.status = "PROCESSING"]

\* data of the three status updates
\* variant of ProcessingData: the first update also resets the checkpoint
ProcessingDataReset(job) ==
    [job EXCEPT !.status = "PROCESSING", !.lastCursor = 0, !.rowsExported = 0]
ProcessingData(job) == [job EXCEPT !.status = "PROCESSING"]
\* variant of DoneData: the last update leaves the status as it is
DoneDataKeepsStatus(job) == job
DoneData(job) == [job EXCEPT !.status = "DONE"]
\* variant of FailedData: the failure update also resets the checkpoint
FailedDataReset(job) == [job EXCEPT !.status = "FAILED", !.lastCursor = 0, !.rowsExported = 0]
FailedData(job) == [job EXCEPT !.status = "FAILED"]

\* a database call resolves (ok) or rejects; rejections are counted
DbCall(ok) ==
    /\ ok \/ faults < MaxFaults
    /\ faults' = IF ok THEN faults ELSE faults + 1

\* prisma.exportJob.update({ where: { id }, data }), when it resolves
Update(id, data, ok) ==
    jobs' = IF ok THEN [jobs EXCEPT ![id] = data] ELSE jobs

\* the history of an invocation that is over is kept only until the next one starts
Forget(run) == IF run.pc \in {"closed", "crashed", "over"} THEN [IdleRun EXCEPT !.pc = "over"] ELSE run

\* GET is called: start(controller) runs up to the await of findUnique
StreamStart(r, id) ==
    /\ runs[r].pc = "idle"
    /\ \A q \in Runs : q < r => runs[q].pc # "idle"
    /\ runs' = [q \in Runs |->
                    IF q = r THEN [IdleRun EXCEPT !.pc = "findUnique", !.jobId = id]
                    ELSE Forget(runs[q])]
    /\ UNCHANGED others
    /\ UNCHANGED <<products, jobs, faults, inserts>>

\* GET is called when no earlier invocation is still running
StartAfterStop(r, id) ==
    /\ \A q \in Runs : ~Active(q)
    /\ StreamStart(r, id)

\* findUnique settles; job not found: error event, close, return (and finally)
AfterFindUnique(run, ok) ==
    LET job == FindUnique(run.jobId)
        read == Logged(run, Ev("read", "findUnique", ok, 0, 0, 0))
    IN IF ~ok THEN Throw(read, "db")
       ELSE IF job = NoJob
       THEN IF CanEnqueue(read)
            THEN Finally(Close(Emit(read, "error", 0, 0, 0)))
            ELSE Throw(read, "sink")
       ELSE [read EXCEPT !.job = job, !.pc = "updateProcessing"]

FindUniqueStep(r) ==
    /\ runs[r].pc = "findUnique"
    /\ \E ok \in BOOLEAN :
        /\ DbCall(ok)
        /\ runs' = [runs EXCEPT ![r] = AfterFindUnique(runs[r], ok)]
    /\ UNCHANGED others
    /\ UNCHANGED <<products, jobs, inserts>>

\* const filters = JSON.parse(job.filters); const where = { ... }
\* variant of RunWhere: the search filter is left out of where
RunWhereNoSearch(job) == BuildWhere([ParseFilters(job.filters) EXCEPT !.search = <<>>])
RunWhere(job) == BuildWhere(ParseFilters(job.filters))

\* variant of AfterUpdateProcessing: the header is not sent
AfterUpdateProcessingNoHeader(run, ok) ==
    LET wrote == Logged(run, Ev("write", "PROCESSING", ok, 0, 0, 0))
        ready == [wrote EXCEPT !.where = RunWhere(run.job),
                               !.cursor = StartCursor(run.job),
                               !.rowsExported = StartRows(run.job)]
    IN IF ~ok THEN Throw(wrote, "db")
       ELSE IF ~CanEnqueue(ready) THEN Throw(ready, "sink")
       ELSE [ready EXCEPT !.pc = "findMany"]

\* the PROCESSING update settles; filters, where, cursor, rowsExported, header
AfterUpdateProcessing(run, ok) ==
    LET wrote == Logged(run, Ev("write", "PROCESSING", ok, 0, 0, 0))
        ready == [wrote EXCEPT !.where = RunWhere(run.job),
                               !.cursor = StartCursor(run.job),
                               !.rowsExported = StartRows(run.job)]
    IN IF ~ok THEN Throw(wrote, "db")
       ELSE IF ~CanEnqueue(ready) THEN Throw(ready, "sink")
       ELSE [Emit(ready, "header", 0, 0, 0) EXCEPT !.pc = "findMany"]

UpdateProcessingStep(r) ==
    /\ runs[r].pc = "updateProcessing"
    /\ \E ok \in BOOLEAN :
        /\ DbCall(ok)
        /\ Update(runs[r].jobId, ProcessingData(jobs[runs[r].jobId]), ok)
        /\ runs' = [runs EXCEPT ![r] = AfterUpdateProcessing(runs[r], ok)]
    /\ UNCHANGED others
    /\ UNCHANGED <<products, inserts>>

\* variant of AfterFindMany: the header is sent again in front of each chunk
AfterFindManyHeaderEachChunk(run, result, ok) ==
    LET fetched == Logged(run, Ev("fetch", "findMany", ok, IdLowerBound(run.cursor),
                                  IF ok THEN result.length ELSE 0, run.where))
    IN IF ~ok THEN Throw(fetched, "db")
       ELSE IF LoopEnds(result) THEN [fetched EXCEPT !.pc = "updateDone"]
       ELSE IF ~CanEnqueue(fetched) THEN Throw(fetched, "sink")
       ELSE [Emit(Emit(fetched, "header", 0, 0, 0),
                  "chunk", result.first, result.last, result.length)
                EXCEPT !.cursor = NextCursor(result),
                       !.rowsExported = NextRows(run.rowsExported, result),
                       !.pc = "updateProgress"]

\* findMany settles; empty: leave the loop; else send the chunk, advance
AfterFindMany(run, result, ok) ==
    LET fetched == Logged(run, Ev("fetch", "findMany", ok, IdLowerBound(run.cursor),
                                  IF ok THEN result.length ELSE 0, run.where))
    IN IF ~ok THEN Throw(fetched, "db")
       ELSE IF LoopEnds(result) THEN [fetched EXCEPT !.pc = "updateDone"]
       ELSE IF ~CanEnqueue(fetched) THEN Throw(fetched, "sink")
       ELSE [Emit(fetched, "chunk", result.first, result.last, result.length)
                EXCEPT !.cursor = NextCursor(result),
                       !.rowsExported = NextRows(run.rowsExported, result),
                       !.pc = "updateProgress"]

FindManyStep(r) ==
    /\ runs[r].pc = "findMany"
    /\ \E ok \in BOOLEAN :
        /\ DbCall(ok)
        /\ runs' = [runs EXCEPT ![r] =
              AfterFindMany(runs[r],
                  FindMany(products, runs[r].where, IdLowerBound(runs[r].cursor), CHUNK_SIZE), ok)]
    /\ UNCHANGED others
    /\ UNCHANGED <<products, jobs, inserts>>

\* variant of AfterUpdateProgress: the update is not awaited, its rejection is lost
AfterUpdateProgressNotAwaited(run, ok) ==
    LET wrote == Logged(run, Ev("write", "progress", ok, run.cursor, run.rowsExported, 0))
    IN IF ~CanEnqueue(wrote) THEN Throw(wrote, "sink")
       ELSE [Emit(wrote, "progress", run.rowsExported, run.job.totalRows, 0)
                EXCEPT !.pc = "delay"]

\* the progress update settles; progress event; then the throttle timer
AfterUpdateProgress(run, ok) ==
    LET wrote == Logged(run, Ev("write", "progress", ok, run.cursor, run.rowsExported, 0))
    IN IF ~ok THEN Throw(wrote, "db")
       ELSE IF ~CanEnqueue(wrote) THEN Throw(wrote, "sink")
       ELSE [Emit(wrote, "progress", run.rowsExported, run.job.totalRows, 0)
                EXCEPT !.pc = "delay"]

UpdateProgressStep(r) ==
    /\ runs[r].pc = "updateProgress"
    /\ \E ok \in BOOLEAN :
        /\ DbCall(ok)
        /\ Update(runs[r].jobId,
                  ProgressData(jobs[runs[r].jobId], runs[r].cursor, runs[r].rowsExported), ok)
        /\ runs' = [runs EXCEPT ![r] = AfterUpdateProgress(runs[r], ok)]
    /\ UNCHANGED others
    /\ UNCHANGED <<products, inserts>>

\* the throttle timer fires: next iteration, await findMany
DelayStep(r) ==
    /\ runs[r].pc = "delay"
    /\ runs' = [runs EXCEPT ![r].pc = "findMany"]
    /\ UNCHANGED others
    /\ UNCHANGED <<products, jobs, faults, inserts>>

\* variant of AfterUpdateDone: the done event is sent before the update settles
AfterUpdateDoneEarly(run, ok) ==
    LET wrote == Logged(run, Ev("write", "DONE", ok, 0, 0, 0))
    IN IF ~CanEnqueue(wrote) THEN Throw(wrote, "sink")
       ELSE IF ~ok THEN Throw(Emit(wrote, "done", run.rowsExported, 0, 0), "db")
       ELSE Finally(Emit(wrote, "done", run.rowsExported, 0, 0))

\* the DONE update settles; done event; finally
AfterUpdateDone(run, ok) ==
    LET wrote == Logged(run, Ev("write", "DONE", ok, 0, 0, 0))
    IN IF ~ok THEN Throw(wrote, "db")
       ELSE IF ~CanEnqueue(wrote) THEN Throw(wrote, "sink")
       ELSE Finally(Emit(wrote, "done", run.rowsExported, 0, 0))

UpdateDoneStep(r) ==
    /\ runs[r].pc = "updateDone"
    /\ \E ok \in BOOLEAN :
        /\ DbCall(ok)
        /\ Update(runs[r].jobId, DoneData(jobs[runs[r].jobId]), ok)
        /\ runs' = [runs EXCEPT ![r] = AfterUpdateDone(runs[r], ok)]
    /\ UNCHANGED others
    /\ UNCHANGED <<products, inserts>>

\* variant of AfterUpdateFailed: the rejection of the FAILED update is not
\* swallowed and leaves the catch block before the error event
AfterUpdateFailedRethrow(run, ok) ==
    LET wrote == Logged(run, Ev("write", "FAILED", ok, 0, 0, 0))
    IN IF ~ok THEN Finally(Logged(wrote, Ev("throw", "db", FALSE, 0, 0, 0)))
       ELSE IF CanEnqueue(wrote)
       THEN Finally(Emit(wrote, "error", 0, 0, 0))
       ELSE Finally(Logged(wrote, Ev("throw", "sink", FALSE, 0, 0, 0)))

\* variant of AfterUpdateFailed: the catch block sends no error event
AfterUpdateFailedSilent(run, ok) ==
    Finally(Logged(run, Ev("write", "FAILED", ok, 0, 0, 0)))

\* catch: the FAILED update settles (its rejection is swallowed); error event
\* (a throw of sendEvent leaves the catch block); finally
AfterUpdateFailed(run, ok) ==
    LET wrote == Logged(run, Ev("write", "FAILED", ok, 0, 0, 0))
    IN IF CanEnqueue(wrote)
       THEN Finally(Emit(wrote, "error", 0, 0, 0))
       ELSE Finally(Logged(wrote, Ev("throw", "sink", FALSE, 0, 0, 0)))

UpdateFailedStep(r) ==
    /\ runs[r].pc = "updateFailed"
    /\ IF JobExists(runs[r].jobId)
       THEN \E ok \in BOOLEAN :
               /\ DbCall(ok)
               /\ Update(runs[r].jobId, FailedData(jobs[runs[r].jobId]), ok)
               /\ runs' = [runs EXCEPT ![r] = AfterUpdateFailed(runs[r], ok)]
       ELSE \* update of a record that does not exist rejects
            /\ runs' = [runs EXCEPT ![r] = AfterUpdateFailed(runs[r], FALSE)]
            /\ UNCHANGED <<jobs, faults>>
    /\ UNCHANGED others
    /\ UNCHANGED <<products, inserts>>

\* ------------------------------------------------------------ environment
\* the client goes away (EventSource.close(), tab closed, network): the
\* response stream is cancelled
Disconnect(r) ==
    /\ Active(r)
    /\ runs[r].stream = "readable"
    /\ runs' = [runs EXCEPT ![r].stream = "cancelled"]
    /\ UNCHANGED others
    /\ UNCHANGED <<products, jobs, faults, inserts>>

\* the server process dies: every running handler stops where it is
Crash ==
    /\ \E r \in Runs : Active(r)
    /\ runs' = [r \in Runs |-> IF Active(r) THEN [runs[r] EXCEPT !.pc = "crashed"] ELSE runs[r]]
    /\ UNCHANGED others
    /\ UNCHANGED <<products, jobs, faults, inserts>>

\* a row is inserted into Product
Insert(row) ==
    /\ inserts < MaxInserts
    /\ products' = InsertRow(products, row)
    /\ inserts' = inserts + 1
    /\ UNCHANGED others
    /\ UNCHANGED <<jobs, runs, faults>>

\* ------------------------------------------------------- POST /api/export
\* body.x ?? ""
Coalesce(body, key) == IF key \in DOMAIN body THEN body[key] ELSE <<>>

\* variant of CreatedJob: totalRows counts the whole table
CreatedJobCountsAll(prods, body) ==
    LET filters == [category |-> Coalesce(body, "category"),
                    status |-> Coalesce(body, "status"),
                    search |-> Coalesce(body, "search")]
    IN NewJob(filters, Count(prods, {}))

\* the job record POST creates from a request body
CreatedJob(prods, body) ==
    LET filters == [category |-> Coalesce(body, "category"),
                    status |-> Coalesce(body, "status"),
                    search |-> Coalesce(body, "search")]
        totalRows == Count(prods, BuildWhere(filters))
    IN NewJob(filters, totalRows)

\* a response of a JSON route; code 500 is the framework's answer to a throw
Response(route, code, jobId, job) ==
    [route |-> route, code |-> code, jobId |-> jobId, status |-> job.status,
     rowsExported |-> job.rowsExported, totalRows |-> job.totalRows,
     lastCursor |-> job.lastCursor]
NoResponse == Response("none", 0, 0, NoJob)

\* NextResponse.json({ jobId: job.id, totalRows })
CreateResponse(jobId, totalRows) ==
    [NoResponse EXCEPT !.route = "create", !.code = 200,
                       !.jobId = jobId, !.totalRows = totalRows]

\* POST /api/export: count, create, respond; a rejected call creates nothing
Post(body) ==
    /\ Len(jobs) < MaxJobs
    /\ \E ok \in BOOLEAN :
        /\ DbCall(ok)
        /\ LET job == CreatedJob(products, body)
           IN IF ok
              THEN /\ jobs' = Append(jobs, job)
                   /\ response' = CreateResponse(Len(jobs) + 1, job.totalRows)
              ELSE /\ jobs' = jobs
                   /\ response' = Response("create", 500, 0, NoJob)
    /\ UNCHANGED <<products, runs, inserts, ui, csv>>

\* -------------------------------------------- GET /api/export/[jobId]/status
\* 404 for an unknown id, else the job's progress fields
\* variant of StatusResponse: the job is not checked for null
StatusResponseNoCheck(id) == Response("status", 200, id, FindUnique(id))
StatusResponse(id) ==
    IF FindUnique(id) = NoJob
    THEN Response("status", 404, 0, NoJob)
    ELSE Response("status", 200, id, FindUnique(id))

StatusGet(id) ==
    /\ \E ok \in BOOLEAN :
        /\ DbCall(ok)
        /\ response' = IF ok THEN StatusResponse(id) ELSE Response("status", 500, 0, NoJob)
    /\ response' # response
    /\ UNCHANGED <<products, jobs, runs, inserts, ui, csv>>

\* ---------------------------------------------------------- specification
\* no CSV text
NoCsv == [pc |-> "none"]

\* the page as mounted: useState<ExportState>({ kind: "idle" }), no call of
\* startExport pending, no EventSource, nothing downloaded
ExportState(kind, jobId, rowsExported, totalRows, csvParts) ==
    [kind |-> kind, jobId |-> jobId, rowsExported |-> rowsExported,
     totalRows |-> totalRows, csvParts |-> csvParts]
IdleState == ExportState("idle", 0, 0, 0, 0)
NoCall == [pc |-> "none", seen |-> "idle", jobId |-> 0]
NoDownload == [jobId |-> 0, parts |-> <<>>]
MountedUi ==
    [exportState |-> IdleState, call |-> NoCall, sources |-> <<>>, ref |-> 0,
     download |-> NoDownload, last |-> <<"mount", 0>>]

\* One job has been created by POST /api/export over the seeded table; stream
\* invocations follow one another (none starts while another is running).
Init ==
    /\ products \in Datasets
    /\ \E body \in Bodies : jobs = <<CreatedJob(products, body)>>
    /\ runs = [r \in Runs |-> IdleRun]
    /\ faults = 0
    /\ inserts = 0
    /\ response = NoResponse
    /\ ui = MountedUi
    /\ csv = NoCsv

Next ==
    \/ \E r \in Runs, id \in JobIds : StartAfterStop(r, id)
    \/ \E r \in Runs : FindUniqueStep(r)
    \/ \E r \in Runs : UpdateProcessingStep(r)
    \/ \E r \in Runs : FindManyStep(r)
    \/ \E r \in Runs : UpdateProgressStep(r)
    \/ \E r \in Runs : DelayStep(r)
    \/ \E r \in Runs : UpdateDoneStep(r)
    \/ \E r \in Runs : UpdateFailedStep(r)
    \/ \E r \in Runs : Disconnect(r)
    \/ Crash
    \/ \E row \in {SegA(1), SegB(1)} : Insert(row)

Spec == Init /\ [][Next]_vars

\* The three routes together: jobs are created by POST over a seeded table,
\* their status is read, rows are inserted, and one stream invocation runs on
\* any id while the client may go away; no database call rejects here.
\* ids are opaque: a request names the id of a job created, or one that no
\* job ever gets (0)
ApiJobIds == {0} \cup DOMAIN jobs

\* a table of less than one chunk
ApiDataset == <<SegA(600), SegB(300)>>

\* request bodies: every filter set, and one with keys left out
ApiBodies ==
    { [category |-> CatA, status |-> StActive, search |-> <<"W">>],
      [status |-> <<>>] }

InitApi ==
    /\ products = ApiDataset
    /\ jobs = <<>>
    /\ runs = [r \in Runs |-> IdleRun]
    /\ faults = MaxFaults
    /\ inserts = 0
    /\ response = NoResponse
    /\ ui = MountedUi
    /\ csv = NoCsv

NextApi ==
    \/ \E body \in ApiBodies : Post(body)
    \/ \E id \in ApiJobIds : StatusGet(id)
    \/ \E id \in ApiJobIds : StartAfterStop(1, id)
    \/ \E r \in Runs : FindUniqueStep(r)
    \/ \E r \in Runs : UpdateProcessingStep(r)
    \/ \E r \in Runs : FindManyStep(r)
    \/ \E r \in Runs : UpdateProgressStep(r)
    \/ \E r \in Runs : DelayStep(r)
    \/ \E r \in Runs : UpdateDoneStep(r)
    \/ \E r \in Runs : UpdateFailedStep(r)
    \/ \E r \in Runs : Disconnect(r)
    \/ Crash
    \/ \E row \in {SegA(1), SegB(1)} : Insert(row)

SpecApi == InitApi /\ [][NextApi]_vars


\* ------------------------------------------------------ reading the state
TheJob == jobs[1]

Log(r) == runs[r].log
IsEmit(e, kind) == e.op = "emit" /\ e.kind = kind
IsWrite(e, kind) == e.op = "write" /\ e.kind = kind
IsFetch(e) == e.op = "fetch"
IsTerminal(e) == IsEmit(e, "done") \/ IsEmit(e, "error")

FetchIdx(r) == {i \in 1..Len(Log(r)) : IsFetch(Log(r)[i])}
FirstFetch(r) == Log(r)[CHOOSE i \in FetchIdx(r) : \A j \in FetchIdx(r) : i <= j]

\* the run's stream was never cancelled and nothing was thrown in it
Undisturbed(r) ==
    /\ runs[r].stream # "cancelled"
    /\ \A i \in 1..Len(Log(r)) : Log(r)[i].op # "throw"

\* the loop of the stream handler run to its end in one pass, as a function
RECURSIVE OnePass(_, _, _, _)
OnePass(prods, where, cursor, rowsExported) ==
    LET result == FindMany(prods, where, IdLowerBound(cursor), CHUNK_SIZE)
    IN IF LoopEnds(result) THEN [lastCursor |-> cursor, rowsExported |-> rowsExported]
       ELSE OnePass(prods, where, NextCursor(result), NextRows(rowsExported, result))

JobWhere == BuildWhere(ParseFilters(TheJob.filters))

\* ---------------------------------------------------------------- claims

\* C1: over any sequence of stream runs on the job (fresh start, failure,
\* resume), each started after the previous one stopped, no step decreases the
\* persisted lastCursor or the persisted rowsExported.
C1_CursorAndRowsNeverDecrease ==
    [][/\ TheJob'.lastCursor >= TheJob.lastCursor
       /\ TheJob'.rowsExported >= TheJob.rowsExported]_vars

\* C1 witness: a run resumed on a job that had failed has persisted a larger pair
C1_Witness ==
    \E r \in Runs :
        /\ runs[r].job.status = "FAILED"
        /\ runs[r].job.lastCursor > 0
        /\ TheJob.lastCursor > runs[r].job.lastCursor
        /\ TheJob.rowsExported > runs[r].job.rowsExported

\* C2: once the persisted status is DONE, no step changes it.
C2_DoneIsFinal ==
    [][TheJob.status = "DONE" => TheJob'.status = "DONE"]_vars

\* C3: the first fetch of a run started on a job with persisted cursor c asks
\* for id > c; and, the table unchanged, whenever the job is DONE its persisted
\* lastCursor and rowsExported are those of the export run in one pass, however
\* many times the export was stopped and started again.
C3_ResumeEqualsOnePass ==
    /\ \A r \in Runs :
          FetchIdx(r) # {} =>
             /\ FirstFetch(r).x = runs[r].job.lastCursor
             /\ (\A i \in 1..Len(Log(r)) : ~IsWrite(Log(r)[i], "progress"))
                   => FirstFetch(r).x = TheJob.lastCursor
    /\ (TheJob.status = "DONE" /\ inserts = 0) =>
          /\ TheJob.lastCursor = OnePass(products, JobWhere, 0, 0).lastCursor
          /\ TheJob.rowsExported = OnePass(products, JobWhere, 0, 0).rowsExported

\* C3 witness: the export of 2,500 rows was stopped after chunk 1 was persisted,
\* started again, and is DONE
C3_Witness ==
    \E r \in Runs :
        /\ runs[r].pc = "closed"
        /\ runs[r].job.lastCursor = CHUNK_SIZE
        /\ runs[r].job.rowsExported = CHUNK_SIZE
        /\ FetchIdx(r) # {}
        /\ FirstFetch(r).x = CHUNK_SIZE
        /\ inserts = 0
        /\ TheJob.status = "DONE"
        /\ TheJob.rowsExported = 2500


\* --------------------------------------------------- more state readers
Idx(r) == 1..Len(Log(r))
HasEntry(r, P(_)) == \E i \in Idx(r) : P(Log(r)[i])
NumEntries(r, P(_)) == Cardinality({i \in Idx(r) : P(Log(r)[i])})

IsThrow(e, what) == e.op = "throw" /\ e.kind = what
IsChunk(e) == IsEmit(e, "chunk")
IsOkProgressWrite(e) == IsWrite(e, "progress") /\ e.ok
IsFailedLoopCall(e) == (IsFetch(e) \/ IsWrite(e, "progress")) /\ ~e.ok

\* the checkpoint the run has persisted last (the one it started from, if none)
OkProgressIdx(r) == {i \in Idx(r) : IsOkProgressWrite(Log(r)[i])}
LastCheckpoint(r) ==
    IF OkProgressIdx(r) = {}
    THEN [lastCursor |-> runs[r].job.lastCursor, rowsExported |-> runs[r].job.rowsExported]
    ELSE LET i == CHOOSE i \in OkProgressIdx(r) : \A j \in OkProgressIdx(r) : j <= i
         IN [lastCursor |-> Log(r)[i].x, rowsExported |-> Log(r)[i].y]

\* what the sink received, in order, by kind
EmitKinds(r) ==
    LET es == SelectSeq(Log(r), LAMBDA e : e.op = "emit")
    IN [i \in 1..Len(es) |-> es[i].kind]

\* the lengths of the results of the fetches that resolved, in order
FetchLengths(r) ==
    LET fs == SelectSeq(Log(r), LAMBDA e : IsFetch(e) /\ e.ok)
    IN [i \in 1..Len(fs) |-> fs[i].y]

IsPrefix(s, t) == Len(s) <= Len(t) /\ \A i \in 1..Len(s) : s[i] = t[i]

\* C4: a run whose client cancelled in the middle of the loop (no database
\* call rejected) ends with the persisted lastCursor at the boundary of the
\* last chunk it persisted and with the persisted status still PROCESSING.
C4_CancelLeavesProcessing ==
    \A r \in Runs :
        (/\ runs[r].pc = "closed"
         /\ runs[r].stream = "cancelled"
         /\ faults = 0
         /\ HasEntry(r, IsChunk))
        => /\ TheJob.lastCursor = LastCheckpoint(r).lastCursor
           /\ TheJob.status = "PROCESSING"

\* C5: a run in which a write to the sink threw (no database call rejected)
\* ends with the persisted status PROCESSING, the last persisted checkpoint,
\* and no terminal event emitted.
C5_SinkFailureLeavesProcessing ==
    \A r \in Runs :
        (/\ runs[r].pc = "closed"
         /\ runs[r].jobId = 1
         /\ faults = 0
         /\ HasEntry(r, LAMBDA e : IsThrow(e, "sink")))
        => /\ TheJob.status = "PROCESSING"
           /\ TheJob.lastCursor = LastCheckpoint(r).lastCursor
           /\ TheJob.rowsExported = LastCheckpoint(r).rowsExported
           /\ ~HasEntry(r, IsTerminal)

\* C6 as stated: a run in which a fetch or a persist of the loop rejected ends
\* with the persisted status FAILED and the last persisted checkpoint.
C6_LoopFailureMarksFailed ==
    \A r \in Runs :
        (runs[r].pc = "closed" /\ HasEntry(r, IsFailedLoopCall))
        => /\ TheJob.status = "FAILED"
           /\ TheJob.lastCursor = LastCheckpoint(r).lastCursor
           /\ TheJob.rowsExported = LastCheckpoint(r).rowsExported

\* C6 amended: a run in which a fetch or a persist of the loop rejected ends
\* with the persisted status FAILED if the FAILED update resolved and
\* PROCESSING if it rejected, with lastCursor and rowsExported of the last
\* chunk update that resolved; it makes no fetch after the rejection; and a
\* later run started on the FAILED job fetches first with id > that lastCursor.
C6_LoopFailureKeepsCheckpoint ==
    \A r \in Runs :
        /\ (runs[r].pc = "closed" /\ HasEntry(r, IsFailedLoopCall))
            => /\ \A i \in Idx(r) : IsWrite(Log(r)[i], "FAILED") =>
                    TheJob.status = IF Log(r)[i].ok THEN "FAILED" ELSE "PROCESSING"
               /\ HasEntry(r, LAMBDA e : IsWrite(e, "FAILED"))
               /\ TheJob.lastCursor = LastCheckpoint(r).lastCursor
               /\ TheJob.rowsExported = LastCheckpoint(r).rowsExported
        /\ \A i \in Idx(r) : IsFailedLoopCall(Log(r)[i]) =>
               \A j \in Idx(r) : j > i => ~IsFetch(Log(r)[j])
        /\ (runs[r].job.status = "FAILED" /\ FetchIdx(r) # {})
            => FirstFetch(r).x = runs[r].job.lastCursor

\* C6 witness: a resumed run on a job that failed after one persisted chunk
\* has itself ended on a rejected fetch, the job FAILED with a later checkpoint
C6_Witness ==
    \E r \in Runs :
        /\ runs[r].pc = "closed"
        /\ runs[r].job.status = "FAILED"
        /\ runs[r].job.lastCursor > 0
        /\ HasEntry(r, LAMBDA e : IsFetch(e) /\ ~e.ok)
        /\ OkProgressIdx(r) # {}
        /\ TheJob.status = "FAILED"
        /\ TheJob.lastCursor > runs[r].job.lastCursor

\* C7: a run that is over, whose stream was never cancelled, has emitted
\* exactly one terminal event (one done or one error, never both).
C7_ExactlyOneTerminalEvent ==
    \A r \in Runs :
        (runs[r].pc = "closed" /\ runs[r].stream # "cancelled")
        => NumEntries(r, IsTerminal) = 1

\* C7 witness: a run that failed on a rejected database call after a chunk,
\* stream not cancelled, is over with its error event
C7_Witness ==
    \E r \in Runs :
        /\ runs[r].pc = "closed"
        /\ runs[r].stream = "closed"
        /\ HasEntry(r, LAMBDA e : IsThrow(e, "db"))
        /\ HasEntry(r, IsChunk)
        /\ HasEntry(r, LAMBDA e : IsEmit(e, "error"))

\* C8: a done event comes only after a DONE update that resolved, which comes
\* only after every chunk sent was followed by its own resolved chunk update;
\* a run whose DONE update rejected emits no done event.
C8_DoneOnlyAfterDoneWrite ==
    \A r \in Runs :
        /\ \A i \in Idx(r) : IsEmit(Log(r)[i], "done") =>
              \E j \in Idx(r) :
                  /\ j < i
                  /\ IsWrite(Log(r)[j], "DONE") /\ Log(r)[j].ok
                  /\ \A k \in Idx(r) : (k < j /\ IsChunk(Log(r)[k])) =>
                        \E m \in Idx(r) :
                            /\ k < m /\ m < j
                            /\ IsOkProgressWrite(Log(r)[m])
                            /\ Log(r)[m].x = Log(r)[k].y
        /\ HasEntry(r, LAMBDA e : IsWrite(e, "DONE") /\ ~e.ok)
              => ~HasEntry(r, LAMBDA e : IsEmit(e, "done"))

\* C8 witness: a run emitted done after three chunks
C8_Witness ==
    \E r \in Runs :
        /\ HasEntry(r, LAMBDA e : IsEmit(e, "done"))
        /\ NumEntries(r, IsChunk) = 3

\* C9: on a job whose filters match no row, a run never makes a second fetch
\* and never emits a chunk or a progress event; a run that ends undisturbed made
\* one fetch, emitted the header and then done, and left the job DONE with
\* lastCursor = 0 and rowsExported = 0.
C9_EmptyExport ==
    \A r \in Runs :
        (runs[r].jobId = 1 /\ Count(products, JobWhere) = 0) =>
            /\ NumEntries(r, IsFetch) <= 1
            /\ ~HasEntry(r, IsChunk)
            /\ ~HasEntry(r, LAMBDA e : IsEmit(e, "progress"))
            /\ (runs[r].pc = "closed" /\ Undisturbed(r)) =>
                  /\ NumEntries(r, IsFetch) = 1
                  /\ EmitKinds(r) = <<"header", "done">>
                  /\ TheJob.status = "DONE"
                  /\ TheJob.lastCursor = 0
                  /\ TheJob.rowsExported = 0

\* C9 witness: a run on a job matching no row of a non-empty table is over, undisturbed
C9_Witness ==
    \E r \in Runs :
        /\ runs[r].jobId = 1
        /\ Count(products, JobWhere) = 0
        /\ Count(products, {}) > 0
        /\ runs[r].pc = "closed"
        /\ Undisturbed(r)
        /\ TheJob.status = "DONE"

\* C10: over a table with exactly CHUNK_SIZE matching rows that does not
\* change, the fetches of a fresh run return CHUNK_SIZE rows and then none, in
\* that order and no more; a fresh run that ends undisturbed made exactly these
\* two fetches and left the job DONE.
C10_ExactlyOneChunk ==
    \A r \in Runs :
        (/\ runs[r].jobId = 1
         /\ runs[r].job.lastCursor = 0
         /\ inserts = 0
         /\ Count(products, JobWhere) = CHUNK_SIZE) =>
            /\ IsPrefix(FetchLengths(r), <<CHUNK_SIZE, 0>>)
            /\ HasEntry(r, LAMBDA e : IsWrite(e, "DONE")) =>
                  FetchLengths(r) = <<CHUNK_SIZE, 0>>
            /\ (runs[r].pc = "closed" /\ Undisturbed(r)) =>
                  /\ FetchLengths(r) = <<CHUNK_SIZE, 0>>
                  /\ NumEntries(r, IsFetch) = 2
                  /\ TheJob.status = "DONE"

\* C10 witness: a fresh run over exactly CHUNK_SIZE matching rows is over, the job DONE
C10_Witness ==
    \E r \in Runs :
        /\ runs[r].jobId = 1
        /\ runs[r].job.status = "PENDING"
        /\ inserts = 0
        /\ Count(products, JobWhere) = CHUNK_SIZE
        /\ runs[r].pc = "closed"
        /\ Undisturbed(r)
        /\ TheJob.status = "DONE"

\* a fresh run on the job, over an unchanged table with 2,500 matching rows
FreshOver2500(r) ==
    /\ runs[r].jobId = 1
    /\ runs[r].job # NoJob
    /\ runs[r].job.lastCursor = 0
    /\ runs[r].job.rowsExported = 0
    /\ inserts = 0
    /\ Count(products, JobWhere) = 2500

\* the chunk updates of the run that resolved, as <<lastCursor, rowsExported>>
Checkpoints(r) ==
    LET ws == SelectSeq(Log(r), IsOkProgressWrite)
    IN [i \in 1..Len(ws) |-> <<ws[i].x, ws[i].y>>]

\* C11 as stated: a fresh run over 2,500 matching rows that ends undisturbed
\* made 3 fetches (1000, 1000 and 500 rows) and 3 chunk updates, and left the
\* job DONE with rowsExported = 2500.
C11_ThreeFetches ==
    \A r \in Runs :
        (FreshOver2500(r) /\ runs[r].pc = "closed" /\ Undisturbed(r)) =>
            /\ NumEntries(r, IsFetch) = 3
            /\ FetchLengths(r) = <<1000, 1000, 500>>
            /\ Len(Checkpoints(r)) = 3
            /\ TheJob.rowsExported = 2500
            /\ TheJob.status = "DONE"

\* C11 amended: the fetches of a fresh run over 2,500 matching rows return
\* 1000, 1000, 500 rows and then none, in that order and no more; a run that
\* ends undisturbed made these 4 fetches (3 with rows and the empty one that
\* ends the loop) and 3 chunk updates, to (1000, 1000), (2000, 2000) and
\* (2500, 2500), and left the job DONE with rowsExported = 2500.
C11_ThreeChunksFourFetches ==
    \A r \in Runs :
        FreshOver2500(r) =>
            /\ IsPrefix(FetchLengths(r), <<1000, 1000, 500, 0>>)
            /\ IsPrefix(Checkpoints(r), <<<<1000, 1000>>, <<2000, 2000>>, <<2500, 2500>>>>)
            /\ (runs[r].pc = "closed" /\ Undisturbed(r)) =>
                  /\ NumEntries(r, IsFetch) = 4
                  /\ FetchLengths(r) = <<1000, 1000, 500, 0>>
                  /\ Len(Checkpoints(r)) = 3
                  /\ TheJob.lastCursor = 2500
                  /\ TheJob.rowsExported = 2500
                  /\ TheJob.status = "DONE"

\* C11 witness: a fresh run over 2,500 matching rows is over, undisturbed
C11_Witness ==
    \E r \in Runs :
        /\ FreshOver2500(r)
        /\ runs[r].job.status = "PENDING"
        /\ runs[r].pc = "closed"
        /\ Undisturbed(r)
        /\ NumEntries(r, IsChunk) = 3
        /\ TheJob.status = "DONE"

\* the rows of the table a predicate matches, counted by a full scan
Matching(prods, where) == OnePass(prods, where, 0, 0).rowsExported

\* C12: a step that adds a job adds exactly one, with status PENDING,
\* lastCursor = 0, rowsExported = 0 and totalRows the number of rows that match
\* its filters in the table as it is at that step, and answers with that job's
\* id and that totalRows; an answer of the create route without a new job is an
\* error; and no step (of a stream run or other) changes the totalRows of a job.
C12_CreationAndTotalRows ==
    [][/\ \A i \in DOMAIN jobs :
            i \in DOMAIN jobs' /\ jobs'[i].totalRows = jobs[i].totalRows
       /\ Len(jobs') # Len(jobs) =>
            LET id == Len(jobs')
                job == jobs'[id]
            IN /\ id = Len(jobs) + 1
               /\ job.status = "PENDING"
               /\ job.lastCursor = 0
               /\ job.rowsExported = 0
               /\ job.totalRows = Matching(products, BuildWhere(ParseFilters(job.filters)))
               /\ response' = CreateResponse(id, job.totalRows)
       /\ (response' # response /\ response'.route = "create" /\ response'.code = 200)
            => Len(jobs') = Len(jobs) + 1]_vars

\* C12 witness: a second job was created after a row was inserted, with a
\* totalRows that counts that row, and a stream run on the first job is over,
\* the job DONE with more rows exported than its totalRows
C12_Witness ==
    /\ Len(jobs) = 2
    /\ response = CreateResponse(2, jobs[2].totalRows)
    /\ jobs[1].filters = jobs[2].filters
    /\ jobs[2].totalRows = jobs[1].totalRows + 1
    /\ jobs[1].status = "DONE"
    /\ jobs[1].rowsExported > jobs[1].totalRows

\* C13: no step changes the stored filters of the job, and every fetch of
\* every run on the job was made with the where built from the stored filters.
C13_FiltersImmutable ==
    /\ [](\A r \in Runs : \A i \in Idx(r) :
            (runs[r].jobId = 1 /\ IsFetch(Log(r)[i])) => Log(r)[i].z = JobWhere)
    /\ [][TheJob'.filters = TheJob.filters]_vars

\* C13 witness: a run on a job with all three filters set has fetched with
\* the three conditions, then failed, and the job is FAILED with its filters
C13_Witness ==
    \E r \in Runs :
        /\ runs[r].pc = "closed"
        /\ runs[r].jobId = 1
        /\ Cardinality(JobWhere) = 3
        /\ HasEntry(r, LAMBDA e : IsFetch(e) /\ e.ok /\ e.z = JobWhere)
        /\ TheJob.status = "FAILED"
        /\ TheJob.filters = runs[r].job.filters

\* ------------------------------------------------- overlapping invocations
\* The route takes every request: a stream invocation on the job may start
\* while an earlier one is still running (a second tab, or Resume Export while
\* the handler of the dropped stream has not yet reached its next enqueue).
\* One job over 2,500 rows, no filter; no database call rejects here.
InitOverlap ==
    /\ products = <<SegA(2500)>>
    /\ jobs = <<CreatedJob(products, [category |-> <<>>, status |-> <<>>, search |-> <<>>])>>
    /\ runs = [r \in Runs |-> IdleRun]
    /\ faults = MaxFaults
    /\ inserts = 0
    /\ response = NoResponse
    /\ ui = MountedUi
    /\ csv = NoCsv

NextOverlap ==
    \/ \E r \in Runs : StreamStart(r, 1)
    \/ \E r \in Runs : FindUniqueStep(r)
    \/ \E r \in Runs : UpdateProcessingStep(r)
    \/ \E r \in Runs : FindManyStep(r)
    \/ \E r \in Runs : UpdateProgressStep(r)
    \/ \E r \in Runs : DelayStep(r)
    \/ \E r \in Runs : UpdateDoneStep(r)
    \/ \E r \in Runs : UpdateFailedStep(r)
    \/ \E r \in Runs : Disconnect(r)

SpecOverlap == InitOverlap /\ [][NextOverlap]_vars

\* C14: no two invocations on the job that are both still running have both
\* written lastCursor/rowsExported.
C14_SingleWriter ==
    \A r, q \in Runs :
        (r # q /\ Active(r) /\ Active(q) /\ runs[r].jobId = 1 /\ runs[q].jobId = 1)
        => ~(HasEntry(r, IsOkProgressWrite) /\ HasEntry(q, IsOkProgressWrite))

\* C15: a chunk update that settles with a cursor lower than the persisted
\* lastCursor leaves the persisted lastCursor and rowsExported as they were.
C15_LowerCursorRejected ==
    [][\A r \in Runs :
          (/\ runs[r].pc = "updateProgress"
           /\ runs'[r].pc # "updateProgress"
           /\ runs[r].cursor < TheJob.lastCursor)
          => /\ TheJob'.lastCursor = TheJob.lastCursor
             /\ TheJob'.rowsExported = TheJob.rowsExported]_vars

\* an invocation on an id that no job has
OnUnknownId(r) == runs[r].pc # "idle" /\ runs[r].pc # "over" /\ ~JobExists(runs[r].jobId)

\* C16: the status read of an unknown id answers 404; a stream invocation on
\* an unknown id makes no fetch, emits no header and no chunk and, when it is
\* over with its stream not cancelled, has emitted one error event and nothing
\* else and closed the stream; and neither a status read nor a step of such an
\* invocation changes the job table.
C16_UnknownJob ==
    /\ [](/\ StatusResponse(0) = Response("status", 404, 0, NoJob)
          /\ (response.route = "status" /\ response.code = 200)
                => JobExists(response.jobId)
          /\ \A r \in Runs : OnUnknownId(r) =>
                /\ ~HasEntry(r, IsFetch)
                /\ ~HasEntry(r, IsChunk)
                /\ ~HasEntry(r, LAMBDA e : IsEmit(e, "header"))
                /\ (runs[r].pc = "closed" /\ runs[r].stream # "cancelled") =>
                      /\ EmitKinds(r) = <<"error">>
                      /\ runs[r].stream = "closed")
    /\ [][/\ (response' # response /\ response'.route = "status") => jobs' = jobs
          /\ \A r \in Runs :
                (OnUnknownId(r) /\ runs'[r] # runs[r]) => jobs' = jobs]_vars

\* C16 witness: with a job in the table, the status of an unknown id was just
\* answered 404 and a stream invocation on an unknown id is over with its one
\* error event
C16_Witness ==
    /\ Len(jobs) >= 1
    /\ response = Response("status", 404, 0, NoJob)
    /\ \E r \in Runs :
          /\ OnUnknownId(r)
          /\ runs[r].pc = "closed"
          /\ EmitKinds(r) = <<"error">>
          /\ runs[r].stream = "closed"

\* ------------------------------------------------------------- the page
\* The export logic of the page. The server side of a stream is its
\* environment here: an open EventSource receives messages, progress events,
\* done, or an error. ui.last names the handler that ran last.
Sources == DOMAIN ui.sources
IsOpen(e) == ui.sources[e].open

\* disabled={kind === "creating" || kind === "streaming" || kind === "resuming"}
\* variant of ExportDisabled: the button is disabled only while the job is created
ExportDisabledWhileCreating(kind) == kind = "creating"
ExportDisabled(kind) == kind \in {"creating", "streaming", "resuming"}

\* if (eventSourceRef.current) eventSourceRef.current.close()
CloseCurrent(u) ==
    IF u.ref = 0 THEN u ELSE [u EXCEPT !.sources[u.ref].open = FALSE]

\* close the existing stream; const csvParts = []; es = new EventSource(...);
\* eventSourceRef.current = es; the handlers are registered
OpenStream(u, jobId) ==
    LET closed == CloseCurrent(u)
    IN [closed EXCEPT
          !.sources = Append(@, [jobId |-> jobId, open |-> TRUE, parts |-> <<>>]),
          !.ref = Len(closed.sources) + 1]

\* startExport after its first branch: exportState is the value the call
\* closed over (seen); the status is fetched only if that value is "resuming"
Continue(u, seen, jobId) ==
    IF seen = "resuming"
    THEN [u EXCEPT !.call = [pc |-> "status", seen |-> seen, jobId |-> jobId]]
    ELSE OpenStream([u EXCEPT !.call = NoCall], jobId)

\* setExportState(value)
SetState(u, state) == [u EXCEPT !.exportState = state]

\* a click on a button that is shown and enabled
Click(button) ==
    /\ ui.call = NoCall
    /\ CASE button = "export" ->
              /\ ~ExportDisabled(ui.exportState.kind)
              /\ Len(jobs) < MaxJobs
              /\ ui' = [SetState(ui, ExportState("creating", 0, 0, 0, 0)) EXCEPT
                           !.call = [pc |-> "post", seen |-> ui.exportState.kind, jobId |-> 0],
                           !.last = <<"export", 0>>]
         [] button = "resume" ->
              /\ ui.exportState.kind = "failed"
              /\ Len(ui.sources) < MaxJobs + MaxRuns
              /\ ui' = [Continue(SetState(ui, ExportState("resuming", 0, 0, 0, 0)),
                                 ui.exportState.kind, ui.exportState.jobId)
                           EXCEPT !.last = <<"resume", 0>>]
         [] button = "cancel" ->
              /\ ui.exportState.kind = "streaming"
              /\ ui' = [SetState(CloseCurrent(ui), IdleState) EXCEPT !.last = <<"cancel", 0>>]
         [] button = "close" ->
              /\ ui.exportState.kind = "failed"
              /\ ui' = [SetState(ui, IdleState) EXCEPT !.last = <<"close", 0>>]
         [] button = "done" ->
              /\ ui.exportState.kind = "done"
              /\ ui' = [SetState(ui, IdleState) EXCEPT !.last = <<"done", 0>>]
    /\ UNCHANGED <<products, jobs, runs, faults, inserts, response, csv>>

Buttons == {"export", "resume", "cancel", "close", "done"}

\* the fetch a call of startExport awaits settles: the POST (the job is
\* created, the state becomes streaming from 0) or the status read
FetchSettles(body) ==
    /\ ui.call.pc \in {"post", "status"}
    /\ IF ui.call.pc = "post"
       THEN LET job == CreatedJob(products, body)
                data == CreateResponse(Len(jobs) + 1, job.totalRows)
                streaming == SetState(ui, ExportState("streaming", data.jobId, 0, data.totalRows, 0))
            IN /\ jobs' = Append(jobs, job)
               /\ response' = data
               /\ ui' = [Continue(streaming, ui.call.seen, data.jobId)
                            EXCEPT !.last = <<"post", 0>>]
       ELSE LET data == StatusResponse(ui.call.jobId)
                streaming == SetState(ui, ExportState("streaming", ui.call.jobId,
                                          data.rowsExported, data.totalRows, 0))
            IN /\ jobs' = jobs
               /\ response' = data
               /\ ui' = [OpenStream([streaming EXCEPT !.call = NoCall], ui.call.jobId)
                            EXCEPT !.last = <<"status", 0>>]
    /\ UNCHANGED <<products, runs, faults, inserts, csv>>

\* es.onmessage: csvParts.push(chunk)
Message(e) ==
    /\ IsOpen(e)
    /\ Len(ui.sources[e].parts) < MaxParts
    /\ ui' = [ui EXCEPT !.sources[e].parts = Append(@, <<e, Len(@) + 1>>),
                        !.last = <<"message", e>>]
    /\ UNCHANGED <<products, jobs, runs, faults, inserts, response, csv>>

\* the "progress" listener: only a streaming state takes the new numbers
OnProgress(prev, rowsExported, totalRows, csvParts) ==
    IF prev.kind = "streaming"
    THEN [prev EXCEPT !.rowsExported = rowsExported, !.totalRows = totalRows,
                      !.csvParts = csvParts]
    ELSE prev

Progress(e) ==
    /\ IsOpen(e)
    /\ Len(ui.sources[e].parts) >= 2
    /\ ui.last # <<"progress", e>>
    /\ ui' = [SetState(ui, OnProgress(ui.exportState,
                                      (Len(ui.sources[e].parts) - 1) * CHUNK_SIZE,
                                      jobs[ui.sources[e].jobId].totalRows, e))
                 EXCEPT !.last = <<"progress", e>>]
    /\ UNCHANGED <<products, jobs, runs, faults, inserts, response, csv>>

\* the "done" listener: es.close(), the download of csvParts, the done state
Done(e) ==
    /\ IsOpen(e)
    /\ Len(ui.sources[e].parts) >= 1
    /\ ui' = [SetState(ui, ExportState("done", 0, (Len(ui.sources[e].parts) - 1) * CHUNK_SIZE, 0, 0))
                 EXCEPT !.sources[e].open = FALSE,
                        !.download = [jobId |-> ui.sources[e].jobId, parts |-> ui.sources[e].parts],
                        !.last = <<"done", e>>]
    /\ UNCHANGED <<products, jobs, runs, faults, inserts, response, csv>>

\* the updater of the "error" listener, and of es.onerror
OnError(prev) ==
    IF prev.kind = "streaming"
    THEN ExportState("failed", prev.jobId, prev.rowsExported, prev.totalRows, 0)
    ELSE IdleState

\* an event of type error is dispatched at the EventSource (an error event of
\* the server, or the connection dropped): the listener added with
\* addEventListener("error") runs, then the es.onerror handler; each closes
\* the source and queues its updater
Error(e) ==
    /\ IsOpen(e)
    /\ ui' = [SetState(ui, OnError(OnError(ui.exportState)))
                 EXCEPT !.sources[e].open = FALSE, !.last = <<"error", e>>]
    /\ UNCHANGED <<products, jobs, runs, faults, inserts, response, csv>>

\* The page over a seeded table with no job yet.
InitUi ==
    /\ products = ApiDataset
    /\ jobs = <<>>
    /\ runs = [r \in Runs |-> IdleRun]
    /\ faults = 0
    /\ inserts = 0
    /\ response = NoResponse
    /\ ui = MountedUi
    /\ csv = NoCsv

NextUi ==
    \/ \E button \in Buttons : Click(button)
    \/ \E body \in ApiBodies : FetchSettles(body)
    \/ \E e \in Sources : Message(e)
    \/ \E e \in Sources : Progress(e)
    \/ \E e \in Sources : Done(e)
    \/ \E e \in Sources : Error(e)

SpecUi == InitUi /\ [][NextUi]_vars

\* C17: when an error is dispatched at the event source of the export the page
\* shows as streaming or resuming, the page goes to the failed state with the
\* job id of that export and, from streaming, the progress it showed.
C17_ErrorLeadsToFailed ==
    [][\A e \in Sources :
          (/\ IsOpen(e)
           /\ ui.ref = e
           /\ ui.exportState.kind \in {"streaming", "resuming"}
           /\ ui'.last = <<"error", e>>)
          => /\ ui'.exportState.kind = "failed"
             /\ ui'.exportState.jobId = ui.sources[e].jobId
             /\ ui.exportState.kind = "streaming" =>
                   /\ ui'.exportState.rowsExported = ui.exportState.rowsExported
                   /\ ui'.exportState.totalRows = ui.exportState.totalRows]_vars

\* ------------------------------------------------------------ csvUtils
\* Text is a sequence of one-character strings. A row here has its price in
\* cents (a price of two decimals) and, for createdAt, a day of January 2024.
MaxLen == 2   \* characters of a generated name

Comma == ","
Quote == "\""
Newline == "\n"

Digit(d) == <<"0", "1", "2", "3", "4", "5", "6", "7", "8", "9">>[d + 1]

\* String(n) of a non-negative integer
RECURSIVE Digits(_)
Digits(n) == IF n < 10 THEN <<Digit(n)>> ELSE Digits(n \div 10) \o <<Digit(n % 10)>>

Pad2(n) == <<Digit((n \div 10) % 10), Digit(n % 10)>>

\* price.toFixed(2)
ToFixed2(cents) == Digits(cents \div 100) \o <<".">> \o Pad2(cents % 100)

\* createdAt.toISOString()
ToISOString(day) ==
    <<"2", "0", "2", "4", "-", "0", "1", "-">> \o Pad2(day)
    \o <<"T", "0", "0", ":", "0", "0", ":", "0", "0", ".", "0", "0", "0", "Z">>

\* val.includes(",") || val.includes('"') || val.includes("\n")
NeedsQuotes(val) == \E i \in 1..Len(val) : val[i] \in {Comma, Quote, Newline}

\* val.replace(/"/g, '""')
RECURSIVE DoubleQuotes(_)
DoubleQuotes(val) ==
    IF val = <<>> THEN <<>>
    ELSE (IF Head(val) = Quote THEN <<Quote, Quote>> ELSE <<Head(val)>>)
         \o DoubleQuotes(Tail(val))

\* variant of EscapeCsv: the inner quotes are not doubled
EscapeCsvNoDoubling(val) ==
    IF NeedsQuotes(val) THEN <<Quote>> \o val \o <<Quote>> ELSE val

EscapeCsv(val) ==
    IF NeedsQuotes(val) THEN <<Quote>> \o DoubleQuotes(val) \o <<Quote>> ELSE val

\* [ ... ].join(sep)
RECURSIVE Join(_, _)
Join(fields, sep) ==
    IF fields = <<>> THEN <<>>
    ELSE IF Len(fields) = 1 THEN fields[1]
    ELSE fields[1] \o <<sep>> \o Join(Tail(fields), sep)

HeaderFields ==
    << <<"i", "d">>, <<"n", "a", "m", "e">>,
       <<"c", "a", "t", "e", "g", "o", "r", "y">>, <<"p", "r", "i", "c", "e">>,
       <<"q", "u", "a", "n", "t", "i", "t", "y">>, <<"s", "t", "a", "t", "u", "s">>,
       <<"c", "r", "e", "a", "t", "e", "d", "A", "t">> >>

CSV_HEADER == Join(HeaderFields, Comma) \o <<Newline>>

\* a number as an element of the joined array: join writes a null or missing
\* element as the empty string
NumberField(product, f) == IF f \in DOMAIN product THEN Digits(product[f]) ELSE <<>>

RowToCsvLine(product) ==
    Join(<< NumberField(product, "id"),
            EscapeCsv(product.name),
            EscapeCsv(product.category),
            ToFixed2(product.price),
            NumberField(product, "quantity"),
            EscapeCsv(product.status),
            ToISOString(product.createdAt) >>, Comma) \o <<Newline>>

\* ---- reading CSV back (RFC 4180, records ended by a line feed)
Least(S) == CHOOSE j \in S : \A k \in S : j <= k

\* the end of a field without quotes that starts at i: the next comma or line
\* feed, or the end of the text
PlainEnd(text, i) ==
    Least({j \in i..(Len(text) + 1) : j = Len(text) + 1 \/ text[j] \in {Comma, Newline}})

\* the quote that closes the field opened by the quote at i: the first one
\* that is not half of a doubled quote (the end of the text if none)
ClosingQuote(text, i) ==
    Least({j \in (i + 1)..(Len(text) + 1) :
              \/ j = Len(text) + 1
              \/ /\ text[j] = Quote
                 /\ Cardinality({k \in (i + 1)..j : text[k] = Quote}) % 2 = 1
                 /\ (j = Len(text) \/ text[j + 1] # Quote)})

\* "" inside quotes stands for one quote
RECURSIVE Undouble(_)
Undouble(s) ==
    IF s = <<>> THEN <<>>
    ELSE IF Len(s) >= 2 /\ s[1] = Quote /\ s[2] = Quote
    THEN <<Quote>> \o Undouble(SubSeq(s, 3, Len(s)))
    ELSE <<Head(s)>> \o Undouble(Tail(s))

\* the field that starts at i and the position of what ends it
FieldAt(text, i) ==
    IF i <= Len(text) /\ text[i] = Quote
    THEN LET q == ClosingQuote(text, i)
             e == PlainEnd(text, q + 1)
         IN [value |-> Undouble(SubSeq(text, i + 1, q - 1)) \o SubSeq(text, q + 1, e - 1),
             end |-> e]
    ELSE LET e == PlainEnd(text, i)
         IN [value |-> SubSeq(text, i, e - 1), end |-> e]

\* the records from position i on; record holds the fields of the current one
RECURSIVE ParseFrom(_, _, _, _)
ParseFrom(text, i, record, records) ==
    IF i > Len(text) /\ record = <<>> THEN records
    ELSE LET f == FieldAt(text, i)
             fields == Append(record, f.value)
         IN IF f.end > Len(text) THEN Append(records, fields)
            ELSE IF text[f.end] = Comma THEN ParseFrom(text, f.end + 1, fields, records)
            ELSE ParseFrom(text, f.end + 1, <<>>, Append(records, fields))

ParseCsv(text) == ParseFrom(text, 1, <<>>, <<>>)

DigitValue(c) == CHOOSE d \in 0..9 : Digit(d) = c

RECURSIVE ToNumber(_)
ToNumber(s) ==
    IF s = <<>> THEN 0 ELSE 10 * ToNumber(SubSeq(s, 1, Len(s) - 1)) + DigitValue(s[Len(s)])

\* a record of seven fields read as a row: numbers from their digits, the
\* price from units and two decimals, the day from the date
DecodeRow(fields) ==
    [id |-> ToNumber(fields[1]),
     name |-> fields[2],
     category |-> fields[3],
     price |-> 100 * ToNumber(SubSeq(fields[4], 1, Len(fields[4]) - 3))
               + ToNumber(SubSeq(fields[4], Len(fields[4]) - 1, Len(fields[4]))),
     quantity |-> ToNumber(fields[5]),
     status |-> fields[6],
     createdAt |-> ToNumber(SubSeq(fields[7], 9, 10))]

\* ---- rows encoded one after another behind the header
Alphabet == {"a", Comma, Quote, Newline}

RECURSIVE Texts(_)
Texts(n) ==
    IF n = 0 THEN {<<>>}
    ELSE Texts(n - 1) \cup {Append(t, c) : t \in {u \in Texts(n - 1) : Len(u) = n - 1}, c \in Alphabet}

RowsWith(names) ==
    { [id |-> v[1], name |-> name, category |-> category, price |-> v[2],
       quantity |-> v[3], status |-> v[4], createdAt |-> v[5]] :
        name \in names,
        category \in {CatA, <<"a", Comma, "b">>},
        v \in { <<7, 5, 0, StActive, 1>>, <<120, 129999, 45, <<Quote, "x", Quote>>, 28>> } }

InitCsv ==
    /\ products = <<>>
    /\ jobs = <<>>
    /\ runs = [r \in Runs |-> IdleRun]
    /\ faults = 0
    /\ inserts = 0
    /\ response = NoResponse
    /\ ui = MountedUi
    /\ \E r1 \in RowsWith(Texts(MaxLen)), r2 \in RowsWith(Texts(1)) :
          csv = [pc |-> "rows", rows |-> <<r1, r2>>, sent |-> 0, text |-> CSV_HEADER]

\* csvChunk = products.map(rowToCsvLine).join(""), one row at a time
EncodeRow ==
    /\ csv.pc = "rows"
    /\ csv.sent < Len(csv.rows)
    /\ csv' = [csv EXCEPT !.sent = @ + 1,
                          !.text = @ \o RowToCsvLine(csv.rows[csv.sent + 1])]
    /\ UNCHANGED <<products, jobs, runs, faults, inserts, response, ui>>

NextCsv == EncodeRow

SpecCsv == InitCsv /\ [][NextCsv]_vars

\* C18: the header and the lines encoded so far, read back as CSV, are the
\* header record followed by one record of seven fields per row, each of which
\* decodes to its row field for field; and a text field with a comma, a quote
\* or a newline is encoded between two quotes with every inner quote doubled.
C18_RoundTrip ==
    csv.pc = "rows" =>
        LET parsed == ParseCsv(csv.text)
        IN /\ Len(parsed) = 1 + csv.sent
           /\ parsed[1] = HeaderFields
           /\ \A k \in 1..csv.sent :
                 /\ Len(parsed[k + 1]) = 7
                 /\ DecodeRow(parsed[k + 1]) = csv.rows[k]
           /\ \A k \in 1..Len(csv.rows) :
                 LET name == csv.rows[k].name
                     enc == EscapeCsv(name)
                     quotes == Cardinality({i \in 1..Len(name) : name[i] = Quote})
                 IN IF NeedsQuotes(name)
                    THEN /\ Len(enc) = Len(name) + 2 + quotes
                         /\ enc[1] = Quote /\ enc[Len(enc)] = Quote
                    ELSE enc = name

\* C18 witness: two rows are encoded, the name of the first with a comma and a
\* quote, the name of the second a newline
C18_Witness ==
    /\ csv.pc = "rows"
    /\ csv.sent = 2
    /\ csv.rows[1].name = <<Comma, Quote>>
    /\ csv.rows[2].name = <<Newline>>
    /\ csv.rows[1].status = <<Quote, "x", Quote>>

IsHeader(e) == IsEmit(e, "header")
IsOkProcessingWrite(e) == IsWrite(e, "PROCESSING") /\ e.ok

\* C19: a run on the job emits the header at most once, only after its
\* PROCESSING update resolved, and before every fetch and every chunk; nothing
\* but an error event is ever emitted without the header in front; every chunk
\* holds only rows with id greater than the cursor the run started from; and a
\* run that ends undisturbed, fresh or resumed, emitted the header exactly once.
C19_HeaderOncePerRun ==
    \A r \in Runs :
        runs[r].jobId = 1 =>
            /\ NumEntries(r, IsHeader) <= 1
            /\ \A i \in Idx(r) :
                  /\ IsHeader(Log(r)[i]) =>
                        \E j \in Idx(r) : j < i /\ IsOkProcessingWrite(Log(r)[j])
                  /\ (IsFetch(Log(r)[i]) \/ IsChunk(Log(r)[i])) =>
                        \E j \in Idx(r) : j < i /\ IsHeader(Log(r)[j])
                  /\ (Log(r)[i].op = "emit" /\ ~IsEmit(Log(r)[i], "error")) =>
                        \E j \in Idx(r) : j <= i /\ IsHeader(Log(r)[j])
                  /\ IsChunk(Log(r)[i]) => Log(r)[i].x > runs[r].job.lastCursor
            /\ (runs[r].pc = "closed" /\ Undisturbed(r)) =>
                  /\ NumEntries(r, IsHeader) = 1
                  /\ EmitKinds(r)[1] = "header"

\* C19 witness: a run resumed from a persisted cursor is over, undisturbed,
\* with the header and then a chunk that starts above that cursor
C19_Witness ==
    \E r \in Runs :
        /\ runs[r].jobId = 1
        /\ runs[r].job.lastCursor > 0
        /\ runs[r].job.status = "FAILED"
        /\ runs[r].pc = "closed"
        /\ Undisturbed(r)
        /\ Len(EmitKinds(r)) >= 2
        /\ EmitKinds(r)[1] = "header"
        /\ EmitKinds(r)[2] = "chunk"
        /\ \E i \in Idx(r) : IsChunk(Log(r)[i]) /\ Log(r)[i].x = runs[r].job.lastCursor + 1

IsProgressEvent(e) == IsEmit(e, "progress")

\* C20: in the history of a run, between a chunk and any later fetch lies the
\* resolved update of that chunk (its last id as lastCursor) and, after that
\* update and still before the fetch, the progress event with the rowsExported
\* of that update; and every progress event comes directly after the resolved
\* update whose rowsExported it carries.
C20_WriteThenProgressThenFetch ==
    \A r \in Runs :
        /\ \A k, j \in Idx(r) :
              (k < j /\ IsChunk(Log(r)[k]) /\ IsFetch(Log(r)[j])) =>
                 \E m, p \in Idx(r) :
                    /\ k < m /\ m < p /\ p < j
                    /\ IsOkProgressWrite(Log(r)[m])
                    /\ Log(r)[m].x = Log(r)[k].y
                    /\ IsProgressEvent(Log(r)[p])
                    /\ Log(r)[p].x = Log(r)[m].y
        /\ \A p \in Idx(r) :
              IsProgressEvent(Log(r)[p]) =>
                 /\ p > 1
                 /\ IsOkProgressWrite(Log(r)[p - 1])
                 /\ Log(r)[p - 1].y = Log(r)[p].x

\* C20 witness: a run made its third fetch, after two chunks, two resolved
\* updates and two progress events
C20_Witness ==
    \E r \in Runs :
        /\ NumEntries(r, IsFetch) = 3
        /\ NumEntries(r, IsChunk) = 2
        /\ NumEntries(r, IsOkProgressWrite) = 2
        /\ NumEntries(r, IsProgressEvent) = 2
        /\ IsFetch(Log(r)[Len(Log(r))])

\* the rows of the chunks among the first n entries of a history
RECURSIVE RowsSent(_, _)
RowsSent(log, n) ==
    IF n = 0 THEN 0
    ELSE RowsSent(log, n - 1) + (IF IsChunk(log[n]) THEN log[n].z ELSE 0)

\* C21: in the history of a run, a chunk holds ids in ascending order and
\* starts above the last id of every earlier chunk; between two chunks lies a
\* progress event, the first event after the earlier chunk; every progress
\* event carries the rowsExported the run started from plus the rows of the
\* chunks sent before it; and of two progress events the later carries the
\* larger rowsExported.
C21_ChunksAndProgressInOrder ==
    \A r \in Runs :
        /\ \A k \in Idx(r) :
              IsChunk(Log(r)[k]) =>
                 /\ Log(r)[k].x <= Log(r)[k].y
                 /\ Log(r)[k].z >= 1
        /\ \A k, j \in Idx(r) :
              (k < j /\ IsChunk(Log(r)[k]) /\ IsChunk(Log(r)[j])) =>
                 /\ Log(r)[j].x > Log(r)[k].y
                 /\ \E p \in Idx(r) :
                       /\ k < p /\ p < j
                       /\ IsProgressEvent(Log(r)[p])
                       /\ \A i \in Idx(r) : (k < i /\ i < p) => Log(r)[i].op # "emit"
        /\ \A p \in Idx(r) :
              IsProgressEvent(Log(r)[p]) =>
                 Log(r)[p].x = runs[r].job.rowsExported + RowsSent(Log(r), p)
        /\ \A p, q \in Idx(r) :
              (p < q /\ IsProgressEvent(Log(r)[p]) /\ IsProgressEvent(Log(r)[q])) =>
                 Log(r)[q].x > Log(r)[p].x

\* C21 witness: a run resumed above row 0 has sent two chunks and two
\* progress events
C21_Witness ==
    \E r \in Runs :
        /\ runs[r].job.rowsExported > 0
        /\ NumEntries(r, IsChunk) = 2
        /\ NumEntries(r, IsProgressEvent) = 2

IsRejectedFailedWrite(e) == IsWrite(e, "FAILED") /\ ~e.ok
IsErrorEvent(e) == IsEmit(e, "error")

\* a run on the job that is over and whose FAILED update rejected
FailedWriteFailed(r) ==
    /\ runs[r].pc = "closed"
    /\ runs[r].jobId = 1
    /\ HasEntry(r, IsRejectedFailedWrite)

\* C22 as stated: a run whose FAILED update rejected leaves the job
\* PROCESSING with the last persisted lastCursor and rowsExported, has emitted
\* the error event and closed the stream (the client still there).
C22_FailedWriteFailsLeavesProcessing ==
    \A r \in Runs :
        (FailedWriteFailed(r) /\ runs[r].stream # "cancelled") =>
            /\ TheJob.status = "PROCESSING"
            /\ NumEntries(r, IsErrorEvent) = 1
            /\ runs[r].stream = "closed"

\* C22 amended: the step in which the FAILED update of a run rejects changes
\* no job; the job then has the status the run's last resolved update gave it
\* (PROCESSING once the entry update resolved, else the status it had when the
\* run read it), with lastCursor and rowsExported of the last resolved chunk
\* update; the client still there, the run has emitted one error event, as its
\* last event, and closed the stream.
C22_FailedWriteFailsKeepsJob ==
    /\ [](\A r \in Runs :
            FailedWriteFailed(r) =>
               /\ runs[r].job # NoJob =>
                     /\ TheJob.status =
                           IF HasEntry(r, LAMBDA e : IsWrite(e, "DONE") /\ e.ok) THEN "DONE"
                           ELSE IF HasEntry(r, IsOkProcessingWrite) THEN "PROCESSING"
                           ELSE runs[r].job.status
                     /\ TheJob.lastCursor = LastCheckpoint(r).lastCursor
                     /\ TheJob.rowsExported = LastCheckpoint(r).rowsExported
               /\ runs[r].stream # "cancelled" =>
                     /\ NumEntries(r, IsErrorEvent) = 1
                     /\ EmitKinds(r)[Len(EmitKinds(r))] = "error"
                     /\ ~HasEntry(r, LAMBDA e : IsEmit(e, "done"))
                     /\ runs[r].stream = "closed")
    /\ [][\A r \in Runs :
            (/\ runs[r].pc = "updateFailed"
             /\ runs'[r].pc = "closed"
             /\ IsRejectedFailedWrite(runs'[r].log[Len(runs[r].log) + 1]))
            => jobs' = jobs]_vars

\* C22 witness: a run sent a chunk and persisted it, then a fetch rejected and
\* the FAILED update rejected too; the job is PROCESSING at that checkpoint,
\* the error event is out and the stream closed
C22_Witness ==
    \E r \in Runs :
        /\ FailedWriteFailed(r)
        /\ HasEntry(r, IsOkProgressWrite)
        /\ HasEntry(r, LAMBDA e : IsFetch(e) /\ ~e.ok)
        /\ TheJob.status = "PROCESSING"
        /\ TheJob.lastCursor = LastCheckpoint(r).lastCursor
        /\ TheJob.lastCursor > 0
        /\ NumEntries(r, IsErrorEvent) = 1
        /\ runs[r].stream = "closed"

\* C23: an error event carries the rowsExported the run had reached (the
\* error event of the stream route has no field but message: x = 0).
C23_ErrorCarriesRowsExported ==
    \A r \in Runs :
        \A i \in Idx(r) :
            (IsErrorEvent(Log(r)[i]) /\ runs[r].job # NoJob)
            => Log(r)[i].x = runs[r].rowsExported

\* the rows of the table a predicate matches above a cursor, by a full scan
MatchingAbove(prods, where, cursor) == OnePass(prods, where, cursor, 0).rowsExported

\* the rows the run has sent in its chunks
Sent(run) == RowsSent(run.log, Len(run.log))

\* C24 as stated: when the DONE update of a run resolves, every matching row
\* then in the table above the cursor the run started from, the rows
\* inserted while it ran included, has been sent in a chunk of that run.
C24_InsertedRowDeliveredBeforeDone ==
    [][\A r \in Runs :
          (/\ runs[r].pc = "updateDone"
           /\ runs[r].jobId = 1
           /\ TheJob.status # "DONE"
           /\ TheJob'.status = "DONE")
          => Sent(runs[r]) = MatchingAbove(products, runs[r].where, runs[r].job.lastCursor)]_vars

\* C24 amended: when the fetch that ends the loop of a run resolves (empty),
\* every matching row then in the table above the cursor the run started from,
\* the rows inserted while it ran included, has been sent in a chunk of that
\* run; rows inserted after that fetch are not fetched by that run.
C24_InsertedRowDeliveredBeforeLastFetch ==
    [][\A r \in Runs :
          /\ (runs[r].pc = "findMany" /\ runs'[r].pc = "updateDone")
                => Sent(runs[r]) = MatchingAbove(products, runs[r].where, runs[r].job.lastCursor)
          /\ runs[r].pc = "updateDone" => Sent(runs'[r]) = Sent(runs[r])]_vars

\* C24 witness: dataset of 2,500 rows; after the chunk of 500 rows was fetched
\* a matching row was inserted, the run sent it in a chunk of its own, and the
\* job is DONE
C24_Witness ==
    \E r \in Runs :
        /\ inserts = 1
        /\ runs[r].pc = "closed"
        /\ Undisturbed(r)
        /\ TheJob.status = "DONE"
        /\ \E k, j \in Idx(r) :
              /\ k < j
              /\ IsChunk(Log(r)[k]) /\ Log(r)[k].z = 500
              /\ IsChunk(Log(r)[j]) /\ Log(r)[j].z = 1
              /\ Log(r)[j].x = 2501
        /\ TheJob.rowsExported = 2501

\* ------------------------------------------------- the page, export failed
\* The page as the README's resume flow finds it: job 1 over 2,500 rows has
\* persisted its first chunk and is FAILED; the page shows the failed state,
\* as the first error updater leaves it (OnError applied once to the
\* streaming state), its event source closed.
FailedJob ==
    [CreatedJob(<<SegA(2500)>>, [status |-> <<>>]) EXCEPT
        !.status = "FAILED", !.lastCursor = CHUNK_SIZE, !.rowsExported = CHUNK_SIZE]

FailedUi ==
    [MountedUi EXCEPT
        !.exportState = OnError(ExportState("streaming", 1, CHUNK_SIZE, 2500, 1)),
        !.sources = << [jobId |-> 1, open |-> FALSE, parts |-> << <<1, 1>>, <<1, 2>> >>] >>,
        !.ref = 1,
        !.last = <<"error", 1>>]

InitResume ==
    /\ products = <<SegA(2500)>>
    /\ jobs = <<FailedJob>>
    /\ runs = [r \in Runs |-> IdleRun]
    /\ faults = 0
    /\ inserts = 0
    /\ response = NoResponse
    /\ ui = FailedUi
    /\ csv = NoCsv

SpecResume == InitResume /\ [][NextUi]_vars

FieldNames == <<"id", "name", "category", "price", "quantity", "status", "createdAt">>
Dereferenced == {"name", "category", "price", "status", "createdAt"}

Without(product, f) == [g \in DOMAIN product \ {f} |-> product[g]]

\* the outcome of the call rowToCsvLine(product)
CallRowToCsvLine(product) ==
    IF \E f \in Dereferenced : f \notin DOMAIN product
    THEN [threw |-> TRUE, line |-> <<>>]
    ELSE [threw |-> FALSE, line |-> RowToCsvLine(product)]

InitMalformed ==
    /\ products = <<>>
    /\ jobs = <<>>
    /\ runs = [r \in Runs |-> IdleRun]
    /\ faults = 0
    /\ inserts = 0
    /\ response = NoResponse
    /\ ui = MountedUi
    /\ \E row \in RowsWith(Texts(1)), k \in DOMAIN FieldNames :
          csv = [pc |-> "call", row |-> Without(row, FieldNames[k]), missing |-> k,
                 threw |-> FALSE, line |-> <<>>]

Call ==
    /\ csv.pc = "call"
    /\ csv' = [csv EXCEPT !.pc = "called",
                          !.threw = CallRowToCsvLine(csv.row).threw,
                          !.line = CallRowToCsvLine(csv.row).line]
    /\ UNCHANGED <<products, jobs, runs, faults, inserts, response, ui>>

NextMalformed == Call

SpecMalformed == InitMalformed /\ [][NextMalformed]_vars

\* C26: the call of rowToCsvLine on a row with a missing field does not throw
\* and returns one line of seven fields in which that field is empty.
C26_MalformedFieldIsEmpty ==
    csv.pc = "called" =>
        /\ ~csv.threw
        /\ Len(ParseCsv(csv.line)) = 1
        /\ Len(ParseCsv(csv.line)[1]) = 7
        /\ ParseCsv(csv.line)[1][csv.missing] = <<>>

\* the rows of the table a predicate matches with id at most c, segment by segment
RECURSIVE CountUpToFrom(_, _, _, _)
CountUpToFrom(prods, where, c, k) ==
    IF k > Len(prods) THEN 0
    ELSE (IF Matches(prods[k], where)
          THEN Max(0, Min(Base(prods, k) + prods[k].n, c) - Base(prods, k))
          ELSE 0)
         + CountUpToFrom(prods, where, c, k + 1)

CountUpTo(prods, where, c) == CountUpToFrom(prods, where, c, 1)

\* C27: the table unchanged and the runs one after another, the persisted
\* rowsExported is at every moment the number of rows matching the job's
\* filters with id at most the persisted lastCursor.
C27_RowsExportedCountsUpToCursor ==
    inserts = 0 => TheJob.rowsExported = CountUpTo(products, JobWhere, TheJob.lastCursor)

\* C27 witness: over a table with rows that do not match, a run resumed on
\* the FAILED job has persisted a second chunk: fewer rows than ids
C27_Witness ==
    \E r \in Runs :
        /\ inserts = 0
        /\ runs[r].job.status = "FAILED"
        /\ runs[r].job.lastCursor > runs[r].job.rowsExported
        /\ runs[r].job.rowsExported > 0
        /\ HasEntry(r, IsOkProgressWrite)
        /\ TheJob.lastCursor > runs[r].job.lastCursor
        /\ TheJob.rowsExported < TheJob.lastCursor

\* the positions of the chunks a run has sent
ChunkIdx(r) == {i \in 1..Len(Log(r)) : IsChunk(Log(r)[i])}

\* the last id delivered before position i of the run: the last id of the
\* chunk before it, the cursor the run started from when there is none
DeliveredUpTo(r, i) ==
    LET before == {j \in ChunkIdx(r) : j < i}
    IN IF before = {} THEN StartCursor(runs[r].job)
       ELSE Log(r)[CHOOSE j \in before : \A k \in before : k <= j].y

\* C28: in an uninterrupted run over an unchanged table every chunk holds
\* exactly the matching rows between the last id delivered before it and its
\* own last id, both ends matching and above everything delivered before; a
\* chunk followed by another holds CHUNK_SIZE rows; and once the done event is
\* out no matching row lies above the last id delivered. So every matching row
\* above the start cursor is delivered exactly once.
C28_EveryRowExactlyOnce ==
    \A r \in Runs :
        (inserts = 0 /\ Undisturbed(r) /\ runs[r].jobId = 1) =>
            /\ \A i \in ChunkIdx(r) :
                LET c == Log(r)[i]
                    prev == DeliveredUpTo(r, i)
                    upTo(id) == CountUpTo(products, JobWhere, id)
                IN /\ c.x > prev /\ c.y >= c.x /\ c.z >= 1
                   /\ upTo(c.x - 1) = upTo(prev)
                   /\ upTo(c.x) = upTo(prev) + 1
                   /\ upTo(c.y) = upTo(prev) + c.z
                   /\ upTo(c.y - 1) = upTo(c.y) - 1
                   /\ (\E j \in ChunkIdx(r) : j > i) => c.z = CHUNK_SIZE
            /\ HasEntry(r, LAMBDA e : IsEmit(e, "done")) =>
                CountUpTo(products, JobWhere, DeliveredUpTo(r, Len(Log(r)) + 1))
                    = Count(products, JobWhere)

\* C28 witness: on a table with rows that do not match, in the middle of the
\* id range, a run has sent a full chunk, a shorter last one and the done event
C28_Witness ==
    \E r \in Runs :
        /\ inserts = 0 /\ Undisturbed(r) /\ runs[r].jobId = 1
        /\ Count(products, JobWhere) < Count(products, {})
        /\ Cardinality(ChunkIdx(r)) >= 2
        /\ \E i \in ChunkIdx(r) : Log(r)[i].z < CHUNK_SIZE
        /\ HasEntry(r, LAMBDA e : IsEmit(e, "done"))


\* ------------------------------------------------- runs that nothing stops
\* Invocations one after another with no database rejection, no cancelled
\* stream, no process death and no insert.  The job is a new one or one that
\* an earlier invocation left FAILED after some chunks.  Every awaited call
\* (database call, throttle timer) settles in the end: weak fairness of the
\* continuation of each invocation.
MaxStops == 2     \* chunks persisted before the earlier invocation failed

\* the checkpoint after k iterations of the loop
RECURSIVE AfterChunks(_, _, _, _, _)
AfterChunks(prods, where, cursor, rowsExported, k) ==
    LET result == FindMany(prods, where, IdLowerBound(cursor), CHUNK_SIZE)
    IN IF k = 0 \/ LoopEnds(result)
       THEN [lastCursor |-> cursor, rowsExported |-> rowsExported]
       ELSE AfterChunks(prods, where, NextCursor(result),
                        NextRows(rowsExported, result), k - 1)

\* the job as an invocation that failed after k chunks leaves it
StoppedJob(prods, body, k) ==
    LET job == CreatedJob(prods, body)
        at == AfterChunks(prods, RunWhere(job), StartCursor(job), StartRows(job), k)
    IN IF k = 0 THEN job
       ELSE FailedData(ProgressData(job, at.lastCursor, at.rowsExported))

InitQuiet ==
    /\ products \in Datasets
    /\ \E body \in Bodies, k \in 0..MaxStops : jobs = <<StoppedJob(products, body, k)>>
    /\ runs = [r \in Runs |-> IdleRun]
    /\ faults = MaxFaults
    /\ inserts = 0
    /\ response = NoResponse
    /\ ui = MountedUi
    /\ csv = NoCsv

\* the continuation of invocation r after the call it awaits
Settle(r) ==
    \/ FindUniqueStep(r)
    \/ UpdateProcessingStep(r)
    \/ FindManyStep(r)
    \/ UpdateProgressStep(r)
    \/ DelayStep(r)
    \/ UpdateDoneStep(r)

NextQuiet ==
    \/ \E r \in Runs : StartAfterStop(r, 1)
    \/ \E r \in Runs : Settle(r)

SpecQuiet ==
    InitQuiet /\ [][NextQuiet]_vars /\ \A r \in Runs : WF_vars(Settle(r))

\* the matching rows above the cursor the run started from
RowsAhead(r) ==
    Count(products, JobWhere) - CountUpTo(products, JobWhere, runs[r].job.lastCursor)

\* the run is over after ceil(n / CHUNK_SIZE) + 1 fetches, only the last of
\* them empty, the job DONE and the done event the last thing sent
RanToDone(r) ==
    /\ runs[r].pc = "closed"
    /\ Cardinality(FetchIdx(r)) = ((RowsAhead(r) + CHUNK_SIZE - 1) \div CHUNK_SIZE) + 1
    /\ \A i \in FetchIdx(r) :
        /\ Log(r)[i].ok
        /\ Log(r)[i].y = 0 <=> \A j \in FetchIdx(r) : j <= i
    /\ TheJob.status = "DONE"
    /\ \E i \in Idx(r) :
        /\ IsEmit(Log(r)[i], "done")
        /\ \A j \in Idx(r) : IsEmit(Log(r)[j], "error") => FALSE
        /\ \A j \in Idx(r) : Log(r)[j].op = "emit" => j <= i

\* C29: with an unchanged table and no store or sink error, a run that has
\* started terminates, after exactly ceil(n / CHUNK_SIZE) + 1 fetches of
\* which the last, and only the last, is empty, with the job DONE and a done
\* event, n being the number of matching rows above the start cursor.
C29_RunTerminatesDone ==
    \A r \in Runs : (runs[r].pc = "findUnique") ~> RanToDone(r)

\* C29 witness: a run resumed at cursor 1000 over 2500 rows is over after
\* three fetches and the done event
C29_Witness ==
    \E r \in Runs :
        /\ RanToDone(r)
        /\ runs[r].job.status = "FAILED"
        /\ runs[r].job.lastCursor = CHUNK_SIZE
        /\ RowsAhead(r) = 1500
        /\ Cardinality(FetchIdx(r)) = 3


\* the run read a job that was DONE and no matching row lies above its cursor
OnDoneJob(r) ==
    /\ runs[r].jobId = 1
    /\ runs[r].job.status = "DONE"
    /\ RowsAhead(r) = 0

\* C30: a run on a job that was DONE, with no matching row above its cursor,
\* leaves the persisted lastCursor and rowsExported as they were; if nothing
\* disturbs it, it fetches once, sends the header and then the done event
\* with the persisted rowsExported and nothing else, and the job is DONE
\* when it is over.
C30_RunOnDoneJobChangesNothing ==
    \A r \in Runs :
        OnDoneJob(r) =>
            /\ TheJob.lastCursor = runs[r].job.lastCursor
            /\ TheJob.rowsExported = runs[r].job.rowsExported
            /\ Undisturbed(r) => IsPrefix(EmitKinds(r), <<"header", "done">>)
            /\ (Undisturbed(r) /\ runs[r].pc = "closed") =>
                /\ EmitKinds(r) = <<"header", "done">>
                /\ \A i \in Idx(r) :
                    IsEmit(Log(r)[i], "done") => Log(r)[i].x = runs[r].job.rowsExported
                /\ TheJob.status = "DONE"

\* C30 witness: a second run on the job the first one exported 1500 rows of
\* is over, having sent the header and the done event
C30_Witness ==
    \E r \in Runs :
        /\ OnDoneJob(r) /\ Undisturbed(r) /\ runs[r].pc = "closed"
        /\ runs[r].job.rowsExported = 1500
        /\ runs[r].job.lastCursor = 1800
        /\ EmitKinds(r) = <<"header", "done">>


\* the calls of controller.close() a run has made
CloseIdx(r) == {i \in Idx(r) : Log(r)[i].op = "close"}

\* C31: a run that is over has called controller.close() exactly once, the
\* call closed the stream, and nothing was enqueued after it.
C31_ClosedExactlyOnce ==
    \A r \in Runs :
        runs[r].pc = "closed" =>
            /\ Cardinality(CloseIdx(r)) = 1
            /\ \A i \in CloseIdx(r) :
                /\ Log(r)[i].ok
                /\ \A j \in Idx(r) : Log(r)[j].op = "emit" => j < i


\* the EventSources of the page that are open
OpenSources == {e \in Sources : IsOpen(e)}

\* C32: the page has at most one EventSource open; a step that opens one
\* leaves every earlier one closed; no click on Export CSV is taken while
\* the page is creating, streaming or resuming; and the file downloaded holds
\* the chunks of one stream, all those it received and in order, under the
\* id of the job that stream was opened for.
C32_OneStreamOneFile ==
    /\ [](/\ Cardinality(OpenSources) <= 1
          /\ ui.download # NoDownload =>
                \E e \in Sources :
                    /\ ~IsOpen(e)
                    /\ ui.download.jobId = ui.sources[e].jobId
                    /\ ui.download.parts = ui.sources[e].parts
                    /\ \A i \in 1..Len(ui.download.parts) :
                          ui.download.parts[i] = <<e, i>>)
    /\ [][/\ Len(ui'.sources) > Len(ui.sources) =>
                /\ Len(ui'.sources) = Len(ui.sources) + 1
                /\ ui'.ref = Len(ui'.sources)
                /\ \A e \in DOMAIN ui.sources : ~ui'.sources[e].open
          /\ (ui'.call.pc = "post" /\ ui.call.pc # "post") =>
                ui.exportState.kind \notin {"creating", "streaming", "resuming"}]_vars

\* C32 witness: the stream of a second export is open and has received
\* chunks, the stream of the first is closed and its file was downloaded
C32_Witness ==
    /\ Len(ui.sources) = 2
    /\ OpenSources = {2}
    /\ Len(ui.sources[2].parts) >= 1
    /\ ui.exportState.kind = "streaming"
    /\ ui.download.jobId = ui.sources[1].jobId
    /\ Len(ui.download.parts) >= 2
    /\ ui.sources[2].jobId # ui.sources[1].jobId

====
